---- MODULE Spec2Model ----
(***************************************************************************)
(* Model of mobile/rider-app/assets/create_assets.py: the byte stream      *)
(* built by create_simple_png and the module-level loop that writes the    *)
(* five asset files.                                                       *)
(*                                                                         *)
(* Bytes are integers 0..255 and a byte string is a sequence of them.      *)
(* TLC's integers are 32-bit signed, so an unsigned 32-bit value with the  *)
(* top bit set is never held as a number: it exists only as the four bytes *)
(* struct.pack('>I', ...) makes of it.                                     *)
(***************************************************************************)
EXTENDS Integers, Sequences, FiniteSets, TLC

----------------------------------------------------------------------------
(* struct.pack and the integer operators of lines 9-21 *)

\* One byte of the two's-complement representation of x, k bytes from the
\* least significant one (\div is floor division, % is non-negative).
ByteOf(x, k) ==
    CASE k = 0 -> x % 256
      [] k = 1 -> (x \div 256) % 256
      [] k = 2 -> (x \div 65536) % 256
      [] k = 3 -> (x \div 16777216) % 256

\* struct.pack('>I', v) raises struct.error unless 0 <= v <= 0xFFFFFFFF.  The
\* upper limit lies beyond the integers of the model, so only the lower one
\* can be crossed here.
pack_I_raises(v) == v < 0

\* struct.pack('>I', v) for an argument in range: big-endian, 4 bytes.
pack_I(v) == << ByteOf(v, 3), ByteOf(v, 2), ByteOf(v, 1), ByteOf(v, 0) >>

\* Variant of Invert: arithmetic negation in place of the complement.
Negate(x) == -x

\* Python's ~x on an unbounded integer.
Invert(x) == -x - 1

\* struct.pack('>I', 0xFFFFFFFF & x): the mask keeps the low 32 bits of the
\* two's-complement representation of x, which is always in range for '>I'.
pack_I_masked(x) == << ByteOf(x, 3), ByteOf(x, 2), ByteOf(x, 1), ByteOf(x, 0) >>

\* sum(data) over a bytes object.
RECURSIVE sum(_)
sum(data) == IF data = << >> THEN 0 ELSE Head(data) + sum(Tail(data))

\* Variant of pack_2I5B: little-endian, as '<2I5B' would pack.
pack_2I5B_le(width, height) ==
    << ByteOf(width, 0), ByteOf(width, 1), ByteOf(width, 2), ByteOf(width, 3),
       ByteOf(height, 0), ByteOf(height, 1), ByteOf(height, 2),
       ByteOf(height, 3), 8, 2, 0, 0, 0 >>

\* struct.pack('>2I5B', width, height, 8, 2, 0, 0, 0), arguments in range.
pack_2I5B(width, height) == pack_I(width) \o pack_I(height) \o << 8, 2, 0, 0, 0 >>

----------------------------------------------------------------------------
(* create_simple_png, lines 3-24 *)

\* Variant of signature: the CR of the CR-LF pair lost.
signature_lf == << 137, 80, 78, 71, 10, 26, 10 >>

\* b'\x89PNG\r\n\x1a\n'
signature == << 137, 80, 78, 71, 13, 10, 26, 10 >>

TagIHDR == << 73, 72, 68, 82 >>
TagIDAT == << 73, 68, 65, 84 >>
TagIEND == << 73, 69, 78, 68 >>

\* b'\x00\x00\x7F\xFF\x00'
idat_data == << 0, 0, 127, 255, 0 >>

ihdr_data(width, height) == pack_2I5B(width, height)

ihdr(width, height) ==
    pack_I(Len(ihdr_data(width, height))) \o TagIHDR \o ihdr_data(width, height)
        \o pack_I_masked(Invert(sum(ihdr_data(width, height))))

\* Variant of idat: the length field counts the tag with the payload.
idat_len_with_tag ==
    pack_I(Len(idat_data) + Len(TagIDAT)) \o TagIDAT \o idat_data
        \o pack_I_masked(Invert(sum(idat_data)))

idat ==
    pack_I(Len(idat_data)) \o TagIDAT \o idat_data
        \o pack_I_masked(Invert(sum(idat_data)))

\* Variant of iend: no trailing field after the tag.
iend_no_trailer == pack_I(0) \o TagIEND

iend == pack_I(0) \o TagIEND \o pack_I_masked(Invert(0))

\* Variant of create_simple_png: one IDAT chunk per row, for up to two rows.
create_simple_png_rows(width, height) ==
    IF pack_I_raises(width) \/ pack_I_raises(height)
    THEN [raised |-> TRUE, bytes |-> << >>]
    ELSE [raised |-> FALSE,
          bytes  |-> signature \o ihdr(width, height) \o idat
                         \o (IF height >= 2 THEN idat ELSE << >>) \o iend]

\* The call's outcome: struct.error out of line 9, or the returned bytes.
create_simple_png(width, height) ==
    IF pack_I_raises(width) \/ pack_I_raises(height)
    THEN [raised |-> TRUE, bytes |-> << >>]
    ELSE [raised |-> FALSE,
          bytes  |-> signature \o ihdr(width, height) \o idat \o iend]

----------------------------------------------------------------------------
(* The asset table, lines 27-33 *)

assets ==
    << [filename |-> "icon.png",              width |-> 1024, height |-> 1024],
       [filename |-> "splash.png",            width |-> 2048, height |-> 2048],
       [filename |-> "adaptive-icon.png",     width |-> 1024, height |-> 1024],
       [filename |-> "notification-icon.png", width |-> 96,   height |-> 96],
       [filename |-> "favicon.png",           width |-> 32,   height |-> 32] >>

NumAssets == Len(assets)

Filenames == { assets[k].filename : k \in 1..NumAssets }

----------------------------------------------------------------------------
(* Bounds of the model *)

\* How many times the script is run, one run after the other.
MaxRuns == 2

\* Length of the longest file found in the directory before the first run;
\* longer than any stream the script writes.
OldLongLen == 64

\* Length of the short file found in the directory before the first run.
OldShortLen == 3

\* A failing flush may have put any prefix of the buffer on disk; the model
\* tries the prefixes whose length is a multiple of PartialStep, and the
\* whole buffer.
PartialStep == 8

\* create_simple_png is tried on -1..MaxSmallDim, on the sizes of the asset
\* table and on the values around the byte boundaries of a 32-bit field.
MaxSmallDim == 2

Dims == (-1..MaxSmallDim)
            \cup { assets[k].width : k \in 1..NumAssets }
            \cup { assets[k].height : k \in 1..NumAssets }
            \cup { 255, 256, 65536, 2147483647 }

----------------------------------------------------------------------------
(* The file system seen by open(filename, 'wb'), write and close *)

NoFile == [exists |-> FALSE, data |-> << >>]

OldByte == 170

OldFiles ==
    { NoFile,
      [exists |-> TRUE, data |-> [k \in 1..OldShortLen |-> OldByte]],
      [exists |-> TRUE, data |-> [k \in 1..OldLongLen |-> OldByte]] }

\* Variant of open_wb: the file is created if missing and not truncated, as
\* os.open without O_TRUNC would leave it.
open_no_truncate(file) == [file |-> [exists |-> TRUE, data |-> file.data], pos |-> 0]

\* Variant of open_wb: mode 'ab', writes go to the end of what is there.
open_ab(file) ==
    [file |-> [exists |-> TRUE, data |-> file.data], pos |-> Len(file.data)]

\* open(filename, 'wb'): the file is created if missing and truncated to
\* length zero; the handle's position is 0.
open_wb(file) == [file |-> [exists |-> TRUE, data |-> << >>], pos |-> 0]

\* The buffer written at the handle's position (never beyond the end of the
\* file here): the bytes replace the Len(bytes) bytes that follow the
\* position and whatever the file holds beyond them stays.
flush(file, at, bytes) ==
    [exists |-> TRUE,
     data   |-> SubSeq(file.data, 1, at) \o bytes
                    \o SubSeq(file.data, at + Len(bytes) + 1, Len(file.data))]

\* The prefixes of the buffer a failing flush may leave on disk.
PartialLens(bytes) ==
    { n \in 0..Len(bytes) : n % PartialStep = 0 } \cup { Len(bytes) }

----------------------------------------------------------------------------
(* State *)

VARIABLES
    files,      \* the working directory: filename -> [exists, data]
    pc,         \* the statement the run is at
    i,          \* index into assets of the loop's current triple
    handle,     \* filename of the open file f, or "" when none is open
    pos,        \* position of f in its file
    buf,        \* bytes held by f's buffer, not yet on disk
    out,        \* lines printed on standard output by the current run
    trace,      \* file-system calls and prints of the current run, in order
    exitStatus, \* -1 while running, 0 after a normal end, 1 after a traceback
    run,        \* number of the current run of the script
    prevFiles,  \* the directory as the last run that ended normally left it
    prevOk,     \* whether the previous run ended normally
    arg1, ret1, \* a first call of create_simple_png: arguments and outcome
    arg2, ret2  \* a second call of create_simple_png

vars == << files, pc, i, handle, pos, buf, out, trace, exitStatus, run,
           prevFiles, prevOk, arg1, ret1, arg2, ret2 >>

emitterVars == << files, pc, i, handle, pos, buf, out, trace, exitStatus, run,
                  prevFiles, prevOk >>

callVars == << arg1, ret1, arg2, ret2 >>

NotCalled == [called |-> FALSE, raised |-> FALSE, bytes |-> << >>]

Returned(r) == [called |-> TRUE, raised |-> r.raised, bytes |-> r.bytes]

Created(filename) == << "Created", filename >>

AllCreated == << "All assets created successfully!" >>

Ev(kind, filename) == [kind |-> kind, filename |-> filename]

cur == assets[i]

----------------------------------------------------------------------------
(* The module-level loop, lines 35-40, and the runs of the script *)

NoFiles == [f \in Filenames |-> NoFile]

Init ==
    /\ files \in [Filenames -> OldFiles]
    /\ pc = "open"
    /\ i = 1
    /\ handle = ""
    /\ pos = 0
    /\ buf = << >>
    /\ out = << >>
    /\ trace = << >>
    /\ exitStatus = -1
    /\ run = 1
    /\ prevFiles = NoFiles
    /\ prevOk = FALSE
    /\ arg1 = [width |-> assets[1].width, height |-> assets[1].height]
    /\ arg2 = arg1
    /\ ret1 = NotCalled
    /\ ret2 = NotCalled

\* Variant of Abort: the exception is caught and the loop goes on.
AbortSwallowed ==
    /\ pc' = "print"
    /\ UNCHANGED exitStatus

\* An uncaught exception: traceback, exit status 1.
Abort ==
    /\ pc' = "aborted"
    /\ exitStatus' = 1

\* Line 36, open(filename, 'wb'): the file is created or truncated, or the
\* call raises OSError and leaves the directory as it was.
Open ==
    /\ pc = "open"
    /\ \/ /\ files' = [files EXCEPT ![cur.filename] = open_wb(@).file]
          /\ pos' = open_wb(files[cur.filename]).pos
          /\ handle' = cur.filename
          /\ trace' = Append(trace, Ev("open", cur.filename))
          /\ pc' = "write"
          /\ UNCHANGED exitStatus
       \/ /\ trace' = Append(trace, Ev("open failed", cur.filename))
          /\ Abort
          /\ UNCHANGED << files, handle, pos >>
    /\ UNCHANGED << i, buf, out, run, prevFiles, prevOk, callVars >>

\* Line 37, f.write(create_simple_png(width, height)): the stream is shorter
\* than the buffer of a buffered writer, so it stays in the buffer.  Were the
\* call to raise, the with block would close the file and the run would end.
Write ==
    /\ pc = "write"
    /\ LET r == create_simple_png(cur.width, cur.height) IN
         IF r.raised
         THEN /\ handle' = ""
              /\ trace' = Append(trace, Ev("close", cur.filename))
              /\ Abort
              /\ UNCHANGED buf
         ELSE /\ buf' = buf \o r.bytes
              /\ trace' = Append(trace, Ev("write", cur.filename))
              /\ pc' = "close"
              /\ UNCHANGED << handle, exitStatus >>
    /\ UNCHANGED << files, i, pos, out, run, prevFiles, prevOk, callVars >>

\* End of the with block: close() flushes the buffer to the file and closes
\* it; a failing flush leaves a prefix of the buffer on disk, the file is
\* closed all the same and OSError ends the run.
Close ==
    /\ pc = "close"
    /\ \/ /\ files' = [files EXCEPT ![handle] = flush(@, pos, buf)]
          /\ trace' = Append(trace, Ev("close", handle))
          /\ pc' = "print"
          /\ UNCHANGED exitStatus
       \/ /\ \E n \in PartialLens(buf) :
                files' = [files EXCEPT ![handle] =
                                       flush(@, pos, SubSeq(buf, 1, n))]
          /\ trace' = Append(trace, Ev("close failed", handle))
          /\ Abort
    /\ handle' = ""
    /\ buf' = << >>
    /\ UNCHANGED << i, pos, out, run, prevFiles, prevOk, callVars >>

\* Variant of PrintCreated: line 38 dedented out of the loop, run once after it.
PrintCreatedAfterLoop ==
    /\ pc = "print"
    /\ IF i < NumAssets
       THEN /\ i' = i + 1
            /\ pc' = "open"
            /\ UNCHANGED << out, trace >>
       ELSE /\ out' = Append(out, Created(cur.filename))
            /\ trace' = Append(trace, Ev("print", cur.filename))
            /\ i' = i
            /\ pc' = "final"
    /\ UNCHANGED << files, handle, pos, buf, exitStatus, run, prevFiles, prevOk,
                    callVars >>

\* Line 38, print(f'Created {filename}'), then the next triple of the loop.
PrintCreated ==
    /\ pc = "print"
    /\ out' = Append(out, Created(cur.filename))
    /\ trace' = Append(trace, Ev("print", cur.filename))
    /\ IF i < NumAssets
       THEN i' = i + 1 /\ pc' = "open"
       ELSE i' = i /\ pc' = "final"
    /\ UNCHANGED << files, handle, pos, buf, exitStatus, run, prevFiles, prevOk,
                    callVars >>

\* Line 40, print('All assets created successfully!'), and the normal end.
PrintAll ==
    /\ pc = "final"
    /\ out' = Append(out, AllCreated)
    /\ trace' = Append(trace, Ev("print all", ""))
    /\ pc' = "exited"
    /\ exitStatus' = 0
    /\ UNCHANGED << files, i, handle, pos, buf, run, prevFiles, prevOk,
                    callVars >>

\* The script is run again in the same directory, which nothing else has
\* touched: a new process, with its own standard output.
Rerun ==
    /\ pc \in {"exited", "aborted"}
    /\ run < MaxRuns
    /\ run' = run + 1
    /\ prevOk' = (pc = "exited")
    /\ prevFiles' = IF pc = "exited" THEN files ELSE prevFiles
    /\ pc' = "open"
    /\ i' = 1
    /\ out' = << >>
    /\ trace' = << >>
    /\ exitStatus' = -1
    /\ UNCHANGED << files, handle, pos, buf, callVars >>

Next == Open \/ Write \/ Close \/ PrintCreated \/ PrintAll \/ Rerun

Spec == Init /\ [][Next]_vars

----------------------------------------------------------------------------
(* create_simple_png called on its own, twice, on arguments of Dims *)

Args == [width : Dims, height : Dims]

InitPng ==
    /\ arg1 \in Args
    /\ arg2 \in Args
    /\ ret1 = NotCalled
    /\ ret2 = NotCalled
    /\ files = NoFiles
    /\ pc = "idle"
    /\ i = 1
    /\ handle = ""
    /\ pos = 0
    /\ buf = << >>
    /\ out = << >>
    /\ trace = << >>
    /\ exitStatus = -1
    /\ run = 1
    /\ prevFiles = NoFiles
    /\ prevOk = FALSE

Call1 ==
    /\ ~ret1.called
    /\ ret1' = Returned(create_simple_png(arg1.width, arg1.height))
    /\ UNCHANGED << arg1, arg2, ret2, emitterVars >>

Call2 ==
    /\ ~ret2.called
    /\ ret2' = Returned(create_simple_png(arg2.width, arg2.height))
    /\ UNCHANGED << arg1, arg2, ret1, emitterVars >>

NextPng == Call1 \/ Call2

SpecPng == InitPng /\ [][NextPng]_vars

----------------------------------------------------------------------------
(* Reading a byte stream back: what the properties below are stated with *)

\* The unsigned big-endian integer held by 4 bytes, or -1 when its top bit is
\* set and it is beyond the integers of the model.
BE32(b) ==
    IF b[1] >= 128 THEN -1
    ELSE ((b[1] * 256 + b[2]) * 256 + b[3]) * 256 + b[4]

BadChunk == [ok |-> FALSE, tag |-> << >>, payload |-> << >>, trailer |-> << >>]

\* The chunks of a stream, found by following each chunk's length field:
\* length (4), tag (4), payload (length), trailing field (4).  Bytes that do
\* not make a whole chunk end the result with BadChunk.
RECURSIVE Chunks(_)
Chunks(b) ==
    IF b = << >> THEN << >>
    ELSE IF Len(b) < 12 THEN << BadChunk >>
    ELSE LET n == BE32(SubSeq(b, 1, 4)) IN
         IF n < 0 \/ Len(b) < 12 + n THEN << BadChunk >>
         ELSE << [ok      |-> TRUE,
                  tag     |-> SubSeq(b, 5, 8),
                  payload |-> SubSeq(b, 9, 8 + n),
                  trailer |-> SubSeq(b, 9 + n, 12 + n)] >>
              \o Chunks(SubSeq(b, 13 + n, Len(b)))

\* The chunks that follow the 8-byte signature.
ChunksOf(bytes) == Chunks(SubSeq(bytes, 9, Len(bytes)))

RECURSIVE SumBytes(_)
SumBytes(b) == IF b = << >> THEN 0 ELSE b[1] + SumBytes(Tail(b))

\* The bitwise complement of 4 bytes.
Complement(b) == [k \in 1..4 |-> 255 - b[k]]

IsByteString(b) == \A k \in 1..Len(b) : b[k] \in 0..255

\* The file of asset k has been written and closed by the current run.
WrittenNow(k) ==
    \E p \in 1..Len(trace) : trace[p] = Ev("close", assets[k].filename)

\* The stream create_simple_png builds for asset k.
StreamOf(k) == create_simple_png(assets[k].width, assets[k].height).bytes

IsPrefix(a, b) == Len(a) <= Len(b) /\ SubSeq(b, 1, Len(a)) = a

Count(seq, x) == Cardinality({ p \in 1..Len(seq) : seq[p] = x })

----------------------------------------------------------------------------
(* Properties of the runs of the script, checked under Spec *)

FileOf(k) == files[assets[k].filename]

\* C1: when a run ends normally, each of the five names of the asset table is
\* a file of the directory whose content is exactly the stream
\* create_simple_png builds for its width and height, whatever the directory
\* held before the run (nothing, a shorter file, a longer file, a partly
\* written file of an earlier run).
C1_Overwrites ==
    pc = "exited" =>
        \A k \in 1..NumAssets :
            /\ FileOf(k).exists
            /\ FileOf(k).data = StreamOf(k)

\* A run that ended normally over what an aborted run left behind.
C1_Witness == pc = "exited" /\ run = 2 /\ ~prevOk

Favicon == CHOOSE k \in 1..NumAssets : assets[k].filename = "favicon.png"

FaviconHeader(data) ==
    /\ Len(data) >= 24
    /\ BE32(SubSeq(data, 17, 20)) = 32
    /\ BE32(SubSeq(data, 21, 24)) = 32

\* C2 as stated: once favicon.png is written, the integers at offsets 16 and
\* 20 are 32 and 32 and the file is 58 bytes long.
C2_Original ==
    WrittenNow(Favicon) =>
        /\ FaviconHeader(FileOf(Favicon).data)
        /\ Len(FileOf(Favicon).data) = 58

\* C2 amended: once favicon.png is written, the integers at offsets 16 and 20
\* are 32 and 32 and the file is 62 bytes long: the IEND chunk is 12 bytes,
\* length field, tag and trailing field, not 8.
C2_Length62 ==
    WrittenNow(Favicon) =>
        /\ FaviconHeader(FileOf(Favicon).data)
        /\ Len(FileOf(Favicon).data) = 62

C2_Witness == WrittenNow(Favicon) /\ pc = "exited"

\* C4: the first chunk of every file the run has written has a 13-byte
\* payload: the asset's width and its height as big-endian 4-byte integers,
\* then the bytes 8, 2, 0, 0, 0.
C4_IhdrPayload ==
    \A k \in 1..NumAssets :
        WrittenNow(k) =>
            LET c == ChunksOf(FileOf(k).data) IN
              /\ Len(c) >= 1
              /\ c[1].ok
              /\ Len(c[1].payload) = 13
              /\ BE32(SubSeq(c[1].payload, 1, 4)) = assets[k].width
              /\ BE32(SubSeq(c[1].payload, 5, 8)) = assets[k].height
              /\ SubSeq(c[1].payload, 9, 13) = << 8, 2, 0, 0, 0 >>

\* All five files written.
C4_Witness == \A k \in 1..NumAssets : WrittenNow(k)

\* C6: a run that ends normally right after a run that ended normally leaves
\* every file as that earlier run left it.
C6_Idempotent == (pc = "exited" /\ prevOk) => files = prevFiles

C6_Witness ==
    /\ pc = "exited"
    /\ prevOk
    /\ run = 2
    /\ \A k \in 1..NumAssets : FileOf(k).exists

Failed(e) == e.kind \in {"open failed", "close failed"}

IndexOf(filename) == CHOOSE k \in 1..NumAssets : assets[k].filename = filename

CallsOn(kinds, filename) ==
    Cardinality({ p \in 1..Len(trace) :
                    trace[p].kind \in kinds /\ trace[p].filename = filename })

\* C7: a failing open or close is the last thing the run does and ends it
\* with a non-zero status; at that point the files of the assets before the
\* failing one hold their full new content, no call has touched a file of an
\* asset after it, no file has been opened, written or closed twice, and
\* neither the failing asset's "Created" line nor the closing line has been
\* printed.  A run that ends normally has written all five files.
C7_AbortsOnFirstFailure ==
    /\ \A p \in 1..Len(trace) :
          Failed(trace[p]) =>
              /\ p = Len(trace)
              /\ pc = "aborted"
              /\ trace[p].filename = cur.filename
    /\ pc = "aborted" =>
          /\ exitStatus = 1
          /\ Failed(trace[Len(trace)])
          /\ \A j \in 1..(i - 1) :
                FileOf(j) = [exists |-> TRUE, data |-> StreamOf(j)]
          /\ \A j \in (i + 1)..NumAssets :
                \A p \in 1..Len(trace) : trace[p].filename # assets[j].filename
          /\ \A f \in Filenames :
                /\ CallsOn({"open", "open failed"}, f) <= 1
                /\ CallsOn({"write"}, f) <= 1
                /\ CallsOn({"close", "close failed"}, f) <= 1
          /\ Count(out, Created(cur.filename)) = 0
          /\ Count(out, AllCreated) = 0
    /\ pc = "exited" =>
          /\ exitStatus = 0
          /\ \A k \in 1..NumAssets : WrittenNow(k)

\* The close of the third file fails after the first two were written.
C7_Witness ==
    /\ pc = "aborted"
    /\ i = 3
    /\ trace[Len(trace)].kind = "close failed"
    /\ WrittenNow(1) /\ WrittenNow(2)

ExpectedOut ==
    [k \in 1..(NumAssets + 1) |->
        IF k <= NumAssets THEN Created(assets[k].filename) ELSE AllCreated]

\* C8: standard output is always a prefix of the five "Created" lines in the
\* order of the asset table followed by the closing line, and is all of them
\* when the run ends normally; a "Created" line is printed right after the
\* open, the write and the close of its file, with no file open; a file is
\* opened only right after the "Created" line of the asset before it, the
\* first one at the start of the run.
C8_InOrder ==
    /\ IsPrefix(out, ExpectedOut)
    /\ pc = "exited" => out = ExpectedOut
    /\ Len(out) = Cardinality({ p \in 1..Len(trace) :
                                  trace[p].kind \in {"print", "print all"} })
    /\ pc \in {"print", "final", "exited"} => handle = ""
    /\ \A p \in 1..Len(trace) :
          /\ trace[p].kind = "print" =>
                /\ p >= 4
                /\ trace[p - 3] = Ev("open", trace[p].filename)
                /\ trace[p - 2] = Ev("write", trace[p].filename)
                /\ trace[p - 1] = Ev("close", trace[p].filename)
          /\ trace[p].kind \in {"open", "open failed"} =>
                IF p = 1 THEN IndexOf(trace[p].filename) = 1
                ELSE /\ IndexOf(trace[p].filename) > 1
                     /\ trace[p - 1] =
                            Ev("print", assets[IndexOf(trace[p].filename) - 1].filename)
          /\ trace[p].kind = "print all" =>
                /\ p = Len(trace)
                /\ Len(out) = NumAssets + 1

C8_Witness == pc = "exited" /\ Len(out) = NumAssets + 1

----------------------------------------------------------------------------
(* Properties of create_simple_png, checked under SpecPng *)

Rets == { ret1, ret2 }

Built(r) == r.called /\ ~r.raised

\* C3: the bytes after the signature of every stream create_simple_png
\* returns parse, length field by length field, into exactly three chunks
\* tagged IHDR, IDAT, IEND in that order with no byte left over, and the IEND
\* chunk has an empty payload.
C3_ThreeChunks ==
    \A r \in Rets :
        Built(r) =>
            LET c == ChunksOf(r.bytes) IN
              /\ Len(c) = 3
              /\ \A k \in 1..3 : c[k].ok
              /\ c[1].tag = << 73, 72, 68, 82 >>
              /\ c[2].tag = << 73, 68, 65, 84 >>
              /\ c[3].tag = << 73, 69, 78, 68 >>
              /\ c[3].payload = << >>

C3_Witness ==
    /\ Built(ret1)
    /\ arg1 = [width |-> 2048, height |-> 2048]
    /\ Built(ret2)
    /\ arg2 = [width |-> 0, height |-> 2147483647]

\* C5: every stream create_simple_png returns begins with the 8 bytes
\* 0x89 'P' 'N' 'G' 0x0D 0x0A 0x1A 0x0A.
C5_Signature ==
    \A r \in Rets :
        Built(r) =>
            /\ Len(r.bytes) >= 8
            /\ SubSeq(r.bytes, 1, 8) = << 137, 80, 78, 71, 13, 10, 26, 10 >>

C5_Witness == Built(ret1) /\ Built(ret2) /\ arg1.width # arg2.width

====
